---- MODULE Spec2Model ----
(***************************************************************************)
(* Model of the inventory agent: WindowsService (agent/windows/service.py), *)
(* the scan and the report cache of WindowsScanner                         *)
(* (agent/windows/scanner.py) and Settings (agent/settings.py).            *)
(*                                                                         *)
(* Threads are the external callers of the service's methods and the       *)
(* background threads that start() spawns on _service_loop.  Every thread  *)
(* has a program counter and a stack of return labels; one action is one   *)
(* step of one thread.  Time is a discrete clock in seconds: computation   *)
(* steps take no time, time.sleep() and Thread.join(timeout) end at their  *)
(* deadline, an enumeration or a POST in flight may take any time.         *)
(* A Settings object is used by one thread: each of its methods is one     *)
(* action.                                                                 *)
(***************************************************************************)
EXTENDS Integers, Sequences, FiniteSets, TLC

\* ---------------------------------------------------------------- bounds
NumCallers == 2      \* external contexts calling the service concurrently
MaxThreads == 2      \* background threads start() may spawn in one run
MaxCalls == 3        \* operations the callers invoke in one run, in total
MaxFaults == 1       \* enumerations that raise and POSTs that fail in one run
MaxTime == 5         \* horizon of the clock, seconds
MaxEntries == 2      \* entries one enumeration source returns
MaxItems == 2        \* keys in a config file, keyword arguments of one update()
SimSeconds == 20     \* simulated seconds of the interval scenario

\* ----------------------------------------------------- program constants
TickQuantum == 1     \* time.sleep(1) in _service_loop
JoinTimeout == 5     \* service_thread.join(timeout=5) in stop()
HttpOk == 200        \* response.status_code == 200
HttpError == 500     \* a non-200 answer of the collector
HttpBadRequest == 400   \* the collector's answer to a body that is not JSON
NoTime == -1         \* last_scan_time / last_send_time = None
DefaultTimeoutScan == 3600   \* DEFAULT_SETTINGS['timeout_scan']
DefaultTimeoutSend == 3600   \* DEFAULT_SETTINGS['timeout_send']

Callers == {<<"caller", i>> : i \in 1..NumCallers}
Loops == {<<"loop", i>> : i \in 1..MaxThreads}
Threads == Callers \cup Loops
NoThread == <<"loop", 0>>

\* The settings a service is constructed with: the defaults of Settings, or
\* short intervals that fall due within the horizon.
DefaultConfig == [timeout_scan |-> DefaultTimeoutScan, timeout_send |-> DefaultTimeoutSend]
TestConfig == [timeout_scan |-> 5, timeout_send |-> 9]

\* The context that controls the service (main.py).
Main == <<"caller", 1>>

\* A report: scan() builds a fresh dict on every call.  scan_timestamp is
\* datetime.now() of that call in whole seconds; id numbers the enumeration that
\* produced the report and stands for what tells two reports of one second apart
\* (the microseconds of scan_timestamp, the identity of the dict).
NoReport == [id |-> 0, scan_timestamp |-> NoTime]
Report(n, t) == [id |-> n, scan_timestamp |-> t]

\* What the last operation of a caller returned: the operation, the returned
\* value ("True", "False", "None" or "report") and, for a report, the report.
Ret(o, tag, rep) == [op |-> o, tag |-> tag, data |-> rep]
NoRet == Ret("none", "pending", NoReport)

\* The callbacks of the service; each is None, a function that returns, or a
\* function that raises.
CallbackNames ==
  {"on_scan_start", "on_scan_complete", "on_send_start", "on_send_complete",
   "on_data_request"}
NoCallbacks == [n \in CallbackNames |-> "None"]

\* The dict of get_service_status.
Status(r, t, n, a) ==
  [is_running |-> r, last_scan_time |-> t, scan_count |-> n, thread_alive |-> a]
NoStatus == Status(FALSE, NoTime, 0, FALSE)

\* -------------------------------------------------------- software lists
\* A name is the sequence of its characters' code points: "a", "A", "B", "Ab".
SoftwareNames == {<<97>>, <<65>>, <<66>>, <<65, 98>>}
Versions == {"1.0", "2.0"}

\* The entries a source can return: software['name'], ['version'], ['source'].
Entries(source) ==
  {[name |-> n, version |-> v, source |-> source] :
     n \in SoftwareNames, v \in Versions}

\* The lists of at most MaxEntries entries of a source.
Lists(source) ==
  UNION {[1..k -> Entries(source)] : k \in 0..MaxEntries}

\* str.lower() on code points: the upper-case letters move to lower case.
LowerChar(ch) == IF ch \in 65..90 THEN ch + 32 ELSE ch
lower(name) == [i \in 1..Len(name) |-> LowerChar(name[i])]

RECURSIVE Less(_, _)
\* a < b on strings: by code point, a proper prefix first.
Less(a, b) ==
  IF Len(b) = 0 THEN FALSE
  ELSE IF Len(a) = 0 THEN TRUE
  ELSE IF Head(a) # Head(b) THEN Head(a) < Head(b)
  ELSE Less(Tail(a), Tail(b))

RECURSIVE AddUnseen(_, _, _)
\* One loop of _merge_software_lists: the entries of list whose lower-cased
\* name is not in seen_names are appended, in order.
AddUnseen(merged_list, seen_names, list) ==
  IF Len(list) = 0 THEN [merged_list |-> merged_list, seen_names |-> seen_names]
  ELSE IF lower(Head(list).name) \notin seen_names
    THEN AddUnseen(Append(merged_list, Head(list)),
                   seen_names \cup {lower(Head(list).name)}, Tail(list))
    ELSE AddUnseen(merged_list, seen_names, Tail(list))

\* A merge that goes through the WMIC list first.
MergeWmicFirst(registry_list, wmic_list) ==
  AddUnseen(AddUnseen(<<>>, {}, wmic_list).merged_list,
            AddUnseen(<<>>, {}, wmic_list).seen_names, registry_list).merged_list

\* _merge_software_lists(): the registry list first, then of the WMIC list what
\* is not there yet.
_merge_software_lists(registry_list, wmic_list) ==
  AddUnseen(AddUnseen(<<>>, {}, registry_list).merged_list,
            AddUnseen(<<>>, {}, registry_list).seen_names, wmic_list).merged_list

RECURSIVE Insert(_, _)
\* x placed in a sorted list behind every entry whose key is not greater (the
\* sort of Python is stable).
Insert(sorted, x) ==
  IF Len(sorted) = 0 THEN <<x>>
  ELSE IF Less(lower(x.name), lower(Head(sorted).name)) THEN <<x>> \o sorted
  ELSE <<Head(sorted)>> \o Insert(Tail(sorted), x)

RECURSIVE SortByName(_)
\* all_software.sort(key=lambda x: x['name'].lower()).
SortByName(list) ==
  IF Len(list) = 0 THEN <<>>
  ELSE Insert(SortByName(SubSeq(list, 1, Len(list) - 1)), list[Len(list)])

\* ------------------------------------------------------- Python values
\* A value as the validators of Settings see it: its type, and its number or
\* its text.  A float keeps its whole part in n and its fraction in s.
PyInt(n) == [ty |-> "int", n |-> n, s |-> ""]
PyStr(s) == [ty |-> "str", n |-> 0, s |-> s]
PyFloat(n, frac) == [ty |-> "float", n |-> n, s |-> frac]
PyNone == [ty |-> "NoneType", n |-> 0, s |-> ""]

\* Settings.DEFAULT_SETTINGS.
SettingKeys == {"server_address", "server_port", "timeout_scan", "timeout_send"}
DEFAULT_SETTINGS ==
  [server_address |-> PyStr("127.0.0.1"), server_port |-> PyInt(8080),
   timeout_scan |-> PyInt(DefaultTimeoutScan), timeout_send |-> PyInt(DefaultTimeoutSend)]

\* The content of the config file: missing, not JSON, a JSON array, or a JSON
\* object given as its (key, value) pairs in the order json.load yields them.
File(kind, items) == [kind |-> kind, items |-> items]
MissingFile == File("missing", <<>>)
ObjectFile(items) == File("object", items)

\* The last operation called on the Settings object; for an assignment to a
\* property, the (key, value) pair assigned.
Op(name, items) == [name |-> name, items |-> items]
NoOp == Op("none", <<>>)

\* The values assigned to settings and found in config files: integers, strings
\* (addresses, a decimal string, text), None / null and a float.
Values ==
  {PyInt(-1), PyInt(9000), PyInt(70000),
   PyStr("10.0.0.1"), PyStr("::1"), PyStr("invalid_ip"), PyStr("9000"),
   PyNone, PyFloat(80, ".5")}

\* The keys of a config file or of the keyword arguments of update(): the four
\* settings and a key that is none of them.
AnyKeys == SettingKeys \cup {"unknown_setting"}

\* The values passed to update(): each setting has a valid and an invalid one.
UpdateValues == {PyInt(9000), PyInt(70000), PyStr("10.0.0.1")}

\* The lists of at most MaxItems (key, value) pairs with distinct keys and
\* values of a set: a parsed JSON object, the kwargs of update().
ItemLists(values) ==
  UNION {{q \in [1..k -> AnyKeys \X values] :
            \A i, j \in 1..k : i # j => q[i][1] # q[j][1]} : k \in 0..MaxItems}

Files ==
  {MissingFile, File("invalid", <<>>), File("array", <<>>)}
  \cup {ObjectFile(items) : items \in ItemLists(Values)}

Kwargs == ItemLists(UpdateValues)

\* ipaddress.ip_address(value) returns for the IPv4 and the IPv6 literals and
\* raises ValueError for any other string.
IPv4Literals == {"127.0.0.1", "10.0.0.1"}
IPv6Literals == {"::1"}
ip_address(text) == text \in IPv4Literals \cup IPv6Literals

\* int(value) of a string: the number of a decimal string, ValueError otherwise.
DecimalStrings == {"9000"}
IntOfString(text) == IF text = "9000" THEN 9000 ELSE 0

\* What a validator does with a value: it returns one, or raises ValueError.
Returns(value) == [ok |-> TRUE, value |-> value]
RaisesValueError == [ok |-> FALSE, value |-> PyNone]

\* Settings._validate_server_address(value).
_validate_server_address(value) ==
  IF value.ty # "str" THEN RaisesValueError
  ELSE IF ip_address(value.s) THEN Returns(value)
  ELSE RaisesValueError

\* The first block of _validate_unsigned_int: a string is converted with int()
\* when allow_numeric_string is set.
Converted(value, allow_numeric_string) ==
  IF allow_numeric_string /\ value.ty = "str"
    THEN IF value.s \in DecimalStrings
           THEN Returns(PyInt(IntOfString(value.s))) ELSE RaisesValueError
    ELSE Returns(value)

\* Settings._validate_unsigned_int(value, field_name, allow_numeric_string);
\* field_name only words the message.
_validate_unsigned_int(value, allow_numeric_string) ==
  IF ~Converted(value, allow_numeric_string).ok THEN RaisesValueError
  ELSE IF Converted(value, allow_numeric_string).value.ty # "int" THEN RaisesValueError
  ELSE IF Converted(value, allow_numeric_string).value.n < 0 THEN RaisesValueError
  ELSE Returns(Converted(value, allow_numeric_string).value)

\* The setter of server_port: unsigned int, no numeric strings, at most 65535.
server_port(value) ==
  IF ~_validate_unsigned_int(value, FALSE).ok THEN RaisesValueError
  ELSE IF _validate_unsigned_int(value, FALSE).value.n > 65535 THEN RaisesValueError
  ELSE _validate_unsigned_int(value, FALSE)

\* The setters of timeout_scan and timeout_send: allow_strings = False.
timeout_scan(value) == _validate_unsigned_int(value, FALSE)
timeout_send(value) == _validate_unsigned_int(value, FALSE)

\* setattr(self, key, value) for a key of DEFAULT_SETTINGS: what the setter
\* stores, or that it raises.
Setter(key, value) ==
  CASE key = "server_address" -> _validate_server_address(value)
    [] key = "server_port" -> server_port(value)
    [] key = "timeout_scan" -> timeout_scan(value)
    [] key = "timeout_send" -> timeout_send(value)

RECURSIVE LoadItems(_, _)
\* The for loop of load(): a known key is set through its setter, or put back
\* to its default when the setter raises; an unknown key is only reported.
LoadItems(st, items) ==
  IF Len(items) = 0 THEN st
  ELSE LoadItems(
         IF Head(items)[1] \notin SettingKeys THEN st
         ELSE IF Setter(Head(items)[1], Head(items)[2]).ok
           THEN [st EXCEPT ![Head(items)[1]] = Setter(Head(items)[1], Head(items)[2]).value]
           ELSE [st EXCEPT ![Head(items)[1]] = DEFAULT_SETTINGS[Head(items)[1]]],
         Tail(items))

RECURSIVE UpdateItems(_, _)
\* The for loop of update(): a known key is set through its setter; a setter
\* that raises and an unknown key each add to errors.
UpdateItems(acc, items) ==
  IF Len(items) = 0 THEN acc
  ELSE UpdateItems(
         IF Head(items)[1] \notin SettingKeys
           THEN [acc EXCEPT !.errors = @ + 1]
         ELSE IF Setter(Head(items)[1], Head(items)[2]).ok
           THEN [acc EXCEPT !.st[Head(items)[1]] = Setter(Head(items)[1], Head(items)[2]).value]
           ELSE [acc EXCEPT !.errors = @ + 1],
         Tail(items))

\* json.dump(self._settings, f): the four pairs in the order of the dict.
Dump(st) ==
  <<<<"server_address", st.server_address>>, <<"server_port", st.server_port>>,
    <<"timeout_scan", st.timeout_scan>>, <<"timeout_send", st.timeout_send>>>>

\* A load() that leaves every setting at its default.
LoadedDefaults(st, file) == st

\* What load() leaves in self._settings for a file: every failure before the
\* loop (no file, no JSON, no object) leaves it as it was.
Loaded(st, file) == IF file.kind = "object" THEN LoadItems(st, file.items) ELSE st

\* The file after load(): a missing file is created by save().
AfterLoad(st, file) == IF file.kind = "missing" THEN ObjectFile(Dump(st)) ELSE file

\* ------------------------------------------------------------ collector
\* What a field of a JSON object can be: not there, null, an empty string,
\* array or object, or an object, array or string with content.
FieldKinds ==
  {"absent", "null", "empty_string", "empty_array", "empty_object", "string",
   "array", "object"}

\* A value on which .get(key, default) can be called: a dict.
IsDict(kind) == kind \in {"empty_object", "object"}

\* The body of a POST to /api/v1/agent/data: a JSON object, given by the fields
\* the handler or the agent's report names (system is a field of system_info,
\* hostname the top-level one); JSON text that is not an object; text that is
\* not JSON; bytes that are not text in the charset of the request; and a body
\* whose read fails.
Request(kind, system_info, system, hostname, software_list) ==
  [kind |-> kind, system_info |-> system_info, system |-> system,
   hostname |-> hostname, software_list |-> software_list]

BodyKinds ==
  {"json_array", "json_string", "json_number", "json_null", "not_json", "empty",
   "not_text", "read_error"}

Requests ==
  {Request("object", a, b, h, l) :
     a \in FieldKinds \ {"object"}, b \in {"absent"}, h \in {"absent", "string"},
     l \in {"absent", "empty_array", "array"}}
  \cup {Request("object", "object", b, h, l) :
          b \in FieldKinds, h \in {"absent", "string"},
          l \in {"absent", "empty_array", "array"}}
  \cup {Request(k, "absent", "absent", "absent", "absent") : k \in BodyKinds}

\* await request.json(): the body is read, decoded to text and parsed.  It
\* returns the parsed value, or raises json.JSONDecodeError for text that is
\* not JSON, UnicodeDecodeError for bytes that are not text, or the error of
\* the read.
request_json(req) ==
  CASE req.kind \in {"not_json", "empty"} -> "JSONDecodeError"
    [] req.kind = "not_text" -> "UnicodeDecodeError"
    [] req.kind = "read_error" -> "Exception"
    [] OTHER -> "data"

\* data.get('system_info', {}).get('system', {}).get('hostname', 'Unknown')
\* raises AttributeError when data, data['system_info'] or
\* data['system_info']['system'] is there and is not a dict.
HostnameRaises(req) ==
  \/ req.kind # "object"
  \/ req.system_info # "absent" /\ ~IsDict(req.system_info)
  \/ req.system_info = "object" /\ req.system # "absent" /\ ~IsDict(req.system)

\* web.json_response(body, status=status); the body by its message or error.
Response(status, body) == [status |-> status, body |-> body]

\* agent_data_handler(request).
agent_data_handler(req) ==
  IF request_json(req) = "JSONDecodeError"
    THEN Response(HttpBadRequest, "Invalid JSON data")
  ELSE IF request_json(req) # "data" \/ HostnameRaises(req)
    THEN Response(HttpError, "Internal server error")
  ELSE Response(HttpOk, "Agent data received successfully")

VARIABLES
  is_running, service_thread, last_scan_time, scan_count,
  last_send_time, send_count,      \* WindowsService fields
  cache_data,                      \* WindowsScanner.cache_data
  settings,                        \* the Settings the service was built with
  now,                             \* the clock, datetime.now() in seconds
  enum_count,                      \* invocations of the enumeration (scan body)
  post_count, ok_posts,            \* POSTs issued, POSTs answered with 200
  faults,                          \* enumerations raised and POSTs failed so far
  pc, stack, data, tmp, wake,      \* per thread: position, return labels, locals
  ret, calls,                      \* per caller: last result; operations invoked
  callbacks,                       \* WindowsService.on_* (register_callbacks)
  snapshot,                        \* per caller: dict built by get_service_status
  kept,                            \* per caller: the report its previous get_data() returned
  registry_software, wmic_software,\* scan(): what the two enumerations returned
  all_software,                    \* scan(): the merged list, then sorted in place
  _settings, config_file,          \* Settings: the dict, the content of the file
  op, raised,                      \* Settings: last operation called, its exception
  older,                           \* Settings: the dict of the instance made before
  request, response,               \* collector: the request in hand, its answer
  received_data, health,           \* collector: ServerApp.received_data, last /health
  _cached_info, collect_count      \* SystemInfo: the cached bundle; collections run

svc == <<is_running, service_thread, last_scan_time, scan_count,
         last_send_time, send_count>>
lists == <<registry_software, wmic_software, all_software>>
store == <<_settings, config_file, op, raised, older>>
collector == <<request, response, received_data, health>>
facts == <<_cached_info, collect_count>>
\* What no step of the service's threads changes except the step named: the
\* settings object the service holds, its callbacks, and the state of the
\* operations modelled on their own (status, repeated read, merge, Settings).
conf == <<settings, callbacks, snapshot, kept, lists, store, collector, facts>>
\* Everything but the Settings objects and their file.
agent == <<svc, cache_data, settings, callbacks, snapshot, kept, lists, collector,
           facts,
           enum_count, post_count, ok_posts, faults, now, pc, stack, data, tmp,
           wake, ret, calls>>
counters == <<enum_count, post_count, ok_posts, faults>>
env == <<conf, enum_count, post_count, ok_posts, faults>>
thr == <<pc, stack, data, tmp, wake>>
cal == <<ret, calls>>
vars == <<svc, cache_data, env, now, thr, cal>>

\* -------------------------------------------------------------- helpers
Alive(t) == pc[t] \notin {"unborn", "dead"}

\* Labels at which a thread waits for time or for I/O; time passes only when
\* every thread is idle, unborn, dead or at one of these.
Blocking == {"loop_sleep", "stop_join", "scan_enum", "sd_post"}
Resting == {"idle", "unborn", "dead"}

\* The except clause that guards the call whose return label is f ("" if the
\* call is made outside a try block).
Handler(f) ==
  CASE f = "ts_set_time" -> "ts_except"
    [] f = "sd_set_time" -> "sd_except"
    [] f = "gsd_ret" -> "gsd_except"
    [] OTHER -> ""

RECURSIVE Unwind(_)
\* The stack and position after an exception raised under stack s: frames
\* without a handler are popped, the first guarded frame catches.
Unwind(s) ==
  IF s = <<>> THEN [pc |-> "uncaught", stack |-> <<>>]
  ELSE IF Handler(Head(s)) # "" THEN [pc |-> Handler(Head(s)), stack |-> Tail(s)]
  ELSE Unwind(Tail(s))

\* Return from the current function to the label on top of the stack.
Return(t) ==
  /\ pc' = [pc EXCEPT ![t] = Head(stack[t])]
  /\ stack' = [stack EXCEPT ![t] = Tail(stack[t])]

\* A public operation of caller c returns v.
Finish(c, v) ==
  /\ pc' = [pc EXCEPT ![c] = "idle"]
  /\ ret' = [ret EXCEPT ![c] = v]
  /\ data' = [data EXCEPT ![c] = NoReport]
  /\ UNCHANGED <<stack, tmp, wake, calls>>

\* Caller c invokes an operation, continuing at label l.
Invoke(c, l) ==
  /\ pc[c] = "idle"
  /\ calls < MaxCalls
  /\ pc' = [pc EXCEPT ![c] = l]
  /\ ret' = [ret EXCEPT ![c] = NoRet]
  /\ calls' = calls + 1

\* Thread t enters scan(): one more enumeration is under way.
CallScan(t) ==
  /\ pc' = [pc EXCEPT ![t] = "scan_enum"]
  /\ enum_count' = enum_count + 1
  /\ data' = [data EXCEPT ![t] = Report(enum_count + 1, NoTime)]

\* The callback a cycle calls first, the cycle being named by the label that
\* follows its scanner.scan(): on_scan_start for _trigger_scan, on_send_start
\* for _trigger_send.
StartCallback(first) ==
  IF first = "ts_set_time" THEN "on_scan_start" ELSE "on_send_start"

\* Callback n is registered and raises when called.
Raises(n) == callbacks[n] = "raises"

\* How a cycle begins: if self.on_scan_start: self.on_scan_start(), inside
\* the try block, then data = self.scanner.scan().  A callback that raises
\* takes the cycle to its except clause before the enumeration is invoked.
CycleEntry(first) ==
  IF Raises(StartCallback(first))
    THEN [pc |-> Handler(first), frames |-> <<>>, enums |-> 0]
    ELSE [pc |-> "scan_enum", frames |-> <<first>>, enums |-> 1]

\* The enumeration counter and the thread's data after the cycle has begun.
EnterCycle(t, first) ==
  /\ enum_count' = enum_count + CycleEntry(first).enums
  /\ data' = [data EXCEPT ![t] = IF CycleEntry(first).enums = 1
                                    THEN Report(enum_count + 1, NoTime) ELSE @]

\* Thread t calls _trigger_scan (or _trigger_send), to continue at label l.
CallCycle(t, first, l) ==
  /\ pc' = [pc EXCEPT ![t] = CycleEntry(first).pc]
  /\ EnterCycle(t, first)
  /\ stack' = [stack EXCEPT ![t] = CycleEntry(first).frames \o <<l>> \o @]

\* SystemInfo._cached_info is None, or the bundle of facts a collection made;
\* bundles are numbered by the collection that made them.
NoInfo == 0

\* The state after WindowsService(settings): __init__ of the service and of
\* its scanner, whose SystemInfo() collects the facts once as it is made.
Constructed(cfg) ==
  /\ is_running = FALSE
  /\ service_thread = NoThread
  /\ last_scan_time = NoTime
  /\ scan_count = 0
  /\ last_send_time = NoTime
  /\ send_count = 0
  /\ cache_data = NoReport
  /\ settings = cfg
  /\ now = 0
  /\ enum_count = 0
  /\ post_count = 0
  /\ ok_posts = 0
  /\ faults = 0
  /\ pc = [t \in Threads |-> IF t \in Callers THEN "idle" ELSE "unborn"]
  /\ stack = [t \in Threads |-> <<>>]
  /\ data = [t \in Threads |-> NoReport]
  /\ tmp = [t \in Threads |-> 0]
  /\ wake = [t \in Threads |-> 0]
  /\ ret = [c \in Callers |-> NoRet]
  /\ calls = 0
  /\ snapshot = [c \in Callers |-> NoStatus]
  /\ kept = [c \in Callers |-> NoReport]
  /\ _cached_info = 1
  /\ collect_count = 1

\* The collector has received nothing.
NoRequest == Request("none", "absent", "absent", "absent", "absent")
NoResponse == [status |-> 0, body |-> "none"]
NoHealth == [status |-> "none", received_reports |-> 0]
NoExchange ==
  /\ request = NoRequest
  /\ response = NoResponse
  /\ received_data = <<>>
  /\ health = NoHealth

\* The parts of the agent a run does not exercise: no callback registered, no
\* list enumerated, and a Settings object at its defaults with no file.
NoCallbacksRegistered == callbacks = NoCallbacks
NoLists == registry_software = <<>> /\ wmic_software = <<>> /\ all_software = <<>>
NoStore ==
  /\ _settings = DEFAULT_SETTINGS
  /\ config_file = MissingFile
  /\ op = NoOp
  /\ raised = "none"
  /\ older = DEFAULT_SETTINGS
  /\ NoExchange

Init == Constructed(TestConfig) /\ NoCallbacksRegistered /\ NoLists /\ NoStore

\* register_callbacks(): what a client may have registered before it uses the
\* service: nothing, five callbacks that return, or four that return and one
\* that raises.
CallbackChoices ==
  {NoCallbacks, [n \in CallbackNames |-> "returns"]}
  \cup {[n \in CallbackNames |-> IF n = bad THEN "raises" ELSE "returns"] :
          bad \in CallbackNames}

InitCallbacks ==
  Constructed(TestConfig) /\ callbacks \in CallbackChoices /\ NoLists /\ NoStore

\* ---------------------------------------------------------- SystemInfo
\* collect_all_info(): the cached bundle if there is one, else the facts are
\* collected anew and the new bundle is cached.
collect_all_info ==
  IF _cached_info # NoInfo
    THEN UNCHANGED facts
    ELSE /\ collect_count' = collect_count + 1
         /\ _cached_info' = collect_count + 1

\* collect_all_info(), get_unique_identifier() and to_json() called on the
\* scanner's SystemInfo: the last two start with collect_all_info().
SystemReaders == {"collect_all_info", "get_unique_identifier", "to_json"}

SystemRead(c, name) ==
  /\ pc[c] = "idle"
  /\ calls < MaxCalls
  /\ calls' = calls + 1
  /\ collect_all_info
  /\ ret' = [ret EXCEPT ![c] = Ret(name, "info", NoReport)]
  /\ UNCHANGED <<svc, cache_data, settings, callbacks, snapshot, kept, lists,
                 store, collector, counters, now, thr>>

\* SystemInfo.clear_cache(): self._cached_info = None.
SystemClearCache(c) ==
  /\ pc[c] = "idle"
  /\ calls < MaxCalls
  /\ calls' = calls + 1
  /\ _cached_info' = NoInfo
  /\ ret' = [ret EXCEPT ![c] = Ret("system_info.clear_cache", "None", NoReport)]
  /\ UNCHANGED <<svc, cache_data, settings, callbacks, snapshot, kept, lists,
                 store, collector, collect_count, counters, now, thr>>

\* refresh(): self.clear_cache(); return self.collect_all_info().
refresh(c) ==
  /\ pc[c] = "idle"
  /\ calls < MaxCalls
  /\ calls' = calls + 1
  /\ collect_count' = collect_count + 1
  /\ _cached_info' = collect_count + 1
  /\ ret' = [ret EXCEPT ![c] = Ret("refresh", "info", NoReport)]
  /\ UNCHANGED <<svc, cache_data, settings, callbacks, snapshot, kept, lists,
                 store, collector, counters, now, thr>>

\* ------------------------------------------------------ WindowsScanner
\* scan(): the enumeration (registry, WMIC, system facts) ends; the result is
\* built with scan_timestamp = datetime.now(), stored in self.cache_data and
\* returned.
ScanStore(t) ==
  /\ pc[t] = "scan_enum"
  /\ collect_all_info
  /\ data' = [data EXCEPT ![t] = Report(data[t].id, now)]
  /\ cache_data' = Report(data[t].id, now)
  /\ Return(t)
  /\ UNCHANGED <<svc, settings, callbacks, snapshot, kept, lists, store,
                 collector, counters, now, tmp, wake, cal>>

\* scan(): the enumeration raises (OSError of the registry, a fault of the
\* facts collection); nothing of scan() after it runs, the nearest except
\* clause of the callers takes over.
ScanEnumRaise(t) ==
  /\ pc[t] = "scan_enum"
  /\ faults < MaxFaults
  /\ faults' = faults + 1
  /\ pc' = [pc EXCEPT ![t] = Unwind(stack[t]).pc]
  /\ stack' = [stack EXCEPT ![t] = Unwind(stack[t]).stack]
  /\ data' = [data EXCEPT ![t] = NoReport]
  /\ UNCHANGED <<svc, cache_data, conf, enum_count, post_count, ok_posts,
                 now, tmp, wake, cal>>

\* A get_data() that never looks at the cache.
GetDataAlwaysScan(t) ==
  /\ pc[t] = "gd_check"
  /\ CallScan(t)
  /\ UNCHANGED <<svc, cache_data, conf, post_count, ok_posts, faults, now, stack,
                 tmp, wake, cal>>

\* get_data(): the cache check, "if self.cache_data is not None"; a hit goes on
\* to the return statement, a miss calls scan().
GetDataCheck(t) ==
  /\ pc[t] = "gd_check"
  /\ IF cache_data # NoReport
       THEN /\ pc' = [pc EXCEPT ![t] = "gd_hit"]
            /\ UNCHANGED <<data, enum_count>>
       ELSE CallScan(t)
  /\ UNCHANGED <<svc, cache_data, conf, post_count, ok_posts, faults, now, stack,
                 tmp, wake, cal>>

\* get_data(): "return self.cache_data" reads the attribute a second time; what
\* it returns is what the cache holds now, None after a clear_cache() that
\* another thread ran since the check.
GetDataHit(t) ==
  /\ pc[t] = "gd_hit"
  /\ data' = [data EXCEPT ![t] = cache_data]
  /\ Return(t)
  /\ UNCHANGED <<svc, cache_data, env, now, tmp, wake, cal>>

\* scan() called on the scanner itself, its body step by step, once in a run.
ScanCall(c) ==
  /\ calls = 0
  /\ Invoke(c, "scan_registry")
  /\ stack' = [stack EXCEPT ![c] = <<"scan_ret">>]
  /\ enum_count' = enum_count + 1
  /\ data' = [data EXCEPT ![c] = Report(enum_count + 1, NoTime)]
  /\ UNCHANGED <<svc, cache_data, conf, post_count, ok_posts, faults, now, tmp, wake>>

\* scan(): registry_software = self._get_software_from_registry().
ScanRegistry(c) ==
  /\ pc[c] = "scan_registry"
  /\ registry_software' \in Lists("registry")
  /\ pc' = [pc EXCEPT ![c] = "scan_wmic"]
  /\ UNCHANGED <<svc, cache_data, settings, callbacks, snapshot, kept, store, collector, facts,
                 wmic_software, all_software, counters, now, stack, data, tmp,
                 wake, cal>>

\* scan(): wmic_software = self._get_software_from_wmic().
ScanWmic(c) ==
  /\ pc[c] = "scan_wmic"
  /\ wmic_software' \in Lists("wmic")
  /\ pc' = [pc EXCEPT ![c] = "scan_merge"]
  /\ UNCHANGED <<svc, cache_data, settings, callbacks, snapshot, kept, store, collector, facts,
                 registry_software, all_software, counters, now, stack, data, tmp,
                 wake, cal>>

\* scan(): all_software = self._merge_software_lists(registry_software,
\* wmic_software).
ScanMerge(c) ==
  /\ pc[c] = "scan_merge"
  /\ all_software' = _merge_software_lists(registry_software, wmic_software)
  /\ pc' = [pc EXCEPT ![c] = "scan_sort"]
  /\ UNCHANGED <<svc, cache_data, settings, callbacks, snapshot, kept, store, collector, facts,
                 registry_software, wmic_software, counters, now, stack, data, tmp,
                 wake, cal>>

\* scan(): all_software.sort(key=lambda x: x['name'].lower()); what is left of
\* scan() is the collection of the system facts and the result (ScanStore).
ScanSort(c) ==
  /\ pc[c] = "scan_sort"
  /\ all_software' = SortByName(all_software)
  /\ pc' = [pc EXCEPT ![c] = "scan_enum"]
  /\ UNCHANGED <<svc, cache_data, settings, callbacks, snapshot, kept, store, collector, facts,
                 registry_software, wmic_software, counters, now, stack, data, tmp,
                 wake, cal>>

\* scan() returns result, whose 'software_list' is all_software.
ScanRet(c) ==
  /\ pc[c] = "scan_ret"
  /\ Finish(c, Ret("scan", "report", data[c]))
  /\ UNCHANGED <<svc, cache_data, env, now>>

\* get_data() called on the scanner itself.  The caller keeps the report of its
\* previous call if that call was a get_data() that returned one, to compare.
GetDataCall(c) ==
  /\ Invoke(c, "gd_check")
  /\ stack' = [stack EXCEPT ![c] = <<"gd_ret">>]
  /\ kept' = [kept EXCEPT ![c] = IF ret[c].op = "get_data" /\ ret[c].tag = "report"
                                    THEN ret[c].data ELSE NoReport]
  /\ UNCHANGED <<svc, cache_data, settings, callbacks, snapshot, lists, store, collector, facts,
                 counters, now, data, tmp, wake>>

\* get_data() returns the report to its caller.
GetDataRet(c) ==
  /\ pc[c] = "gd_ret"
  /\ Finish(c, Ret("get_data", "report", data[c]))
  /\ UNCHANGED <<svc, cache_data, env, now>>

\* get_data(): the exception of scan() reaches the caller, no clause of the
\* scanner catches it.
GetDataRaised(c) ==
  /\ pc[c] = "uncaught"
  /\ Finish(c, Ret("get_data", "raised", NoReport))
  /\ UNCHANGED <<svc, cache_data, env, now>>

\* A clear_cache() that leaves the cache as it is.
ClearCacheKept(c) ==
  /\ pc[c] = "idle"
  /\ calls < MaxCalls
  /\ calls' = calls + 1
  /\ ret' = [ret EXCEPT ![c] = Ret("clear_cache", "None", NoReport)]
  /\ UNCHANGED <<svc, cache_data, env, now, thr>>

\* clear_cache(): self.cache_data = None.
ClearCache(c) ==
  /\ pc[c] = "idle"
  /\ calls < MaxCalls
  /\ calls' = calls + 1
  /\ cache_data' = NoReport
  /\ ret' = [ret EXCEPT ![c] = Ret("clear_cache", "None", NoReport)]
  /\ UNCHANGED <<svc, env, now, thr>>

\* ------------------------------------------------------ WindowsService
\* A get_software_data() that gets its report from _trigger_scan.
GetSoftwareDataViaCycle(c) ==
  /\ Invoke(c, CycleEntry("ts_set_time").pc)
  /\ stack' = [stack EXCEPT ![c] = CycleEntry("ts_set_time").frames \o <<"gsd_ret">>]
  /\ EnterCycle(c, "ts_set_time")
  /\ UNCHANGED <<svc, cache_data, conf, post_count, ok_posts, faults, now, tmp, wake>>

\* get_software_data(): if self.on_data_request: self.on_data_request(), then
\* data = self.scanner.get_data(), both inside the try block.
GetSoftwareDataCall(c) ==
  /\ Invoke(c, IF Raises("on_data_request") THEN "gsd_except" ELSE "gd_check")
  /\ stack' = [stack EXCEPT ![c] = IF Raises("on_data_request")
                                     THEN <<>> ELSE <<"gsd_ret">>]
  /\ UNCHANGED <<svc, cache_data, env, now, data, tmp, wake>>

\* get_software_data(): return data.
GetSoftwareDataRet(c) ==
  /\ pc[c] = "gsd_ret"
  /\ Finish(c, Ret("get_software_data", "report", data[c]))
  /\ UNCHANGED <<svc, cache_data, env, now>>

\* get_software_data(): except Exception: return None.
GetSoftwareDataExcept(c) ==
  /\ pc[c] = "gsd_except"
  /\ Finish(c, Ret("get_software_data", "None", NoReport))
  /\ UNCHANGED <<svc, cache_data, env, now>>

\* find_software(name_pattern) and get_software_names(): both hand over to the
\* scanner method of the same shape, find_software_by_name and
\* get_software_names, with no try block on the way.
Lookups == {"find_software", "get_software_names"}

\* Caller c is inside the lookup it called.
InLookup(c) == ret[c].op \in Lookups /\ ret[c].tag = "pending"

\* The scanner method starts: "if self.cache_data is None: self.get_data()".
LookupCall(c, name) ==
  /\ pc[c] = "idle"
  /\ calls < MaxCalls
  /\ calls' = calls + 1
  /\ ret' = [ret EXCEPT ![c] = Ret(name, "pending", NoReport)]
  /\ pc' = [pc EXCEPT ![c] = IF cache_data = NoReport THEN "gd_check" ELSE "lk_read"]
  /\ stack' = [stack EXCEPT ![c] = IF cache_data = NoReport
                                     THEN <<"lk_read">> ELSE <<>>]
  /\ UNCHANGED <<svc, cache_data, env, now, data, tmp, wake>>

\* The scanner method goes on: self.cache_data['software_list'] reads the
\* attribute again.  On None the subscript raises TypeError, which leaves the
\* lookup; on a report the list is built from that report and returned.
LookupRead(c) ==
  /\ pc[c] = "lk_read"
  /\ InLookup(c)
  /\ Finish(c, IF cache_data = NoReport
                 THEN Ret(ret[c].op, "raised", NoReport)
                 ELSE Ret(ret[c].op, "list", cache_data))
  /\ UNCHANGED <<svc, cache_data, env, now>>

\* The exception of the scan() that get_data() called leaves the lookup.
LookupRaised(c) ==
  /\ pc[c] = "uncaught"
  /\ InLookup(c)
  /\ Finish(c, Ret(ret[c].op, "raised", NoReport))
  /\ UNCHANGED <<svc, cache_data, env, now>>

\* register_callbacks(...): the five attributes are assigned.
RegisterCallbacks(c, choice) ==
  /\ pc[c] = "idle"
  /\ calls < MaxCalls
  /\ calls' = calls + 1
  /\ callbacks' = choice
  /\ ret' = [ret EXCEPT ![c] = Ret("register_callbacks", "None", NoReport)]
  /\ UNCHANGED <<svc, cache_data, settings, snapshot, kept, lists, store,
                 collector, facts, counters, now, thr>>

\* start() without its check of is_running.
StartCallUnchecked(c) ==
  /\ Invoke(c, "start_set")
  /\ UNCHANGED <<svc, cache_data, env, now, stack, data, tmp, wake>>

\* start(): the check of is_running that opens it.
StartCall(c) ==
  /\ Invoke(c, IF is_running THEN "start_false" ELSE "start_set")
  /\ UNCHANGED <<svc, cache_data, env, now, stack, data, tmp, wake>>

\* start(): print("Service is already running"); return False.
StartRetFalse(c) ==
  /\ pc[c] = "start_false"
  /\ Finish(c, Ret("start", "False", NoReport))
  /\ UNCHANGED <<svc, cache_data, env, now>>

\* start(): self.is_running = True.
StartSet(c) ==
  /\ pc[c] = "start_set"
  /\ is_running' = TRUE
  /\ pc' = [pc EXCEPT ![c] = "start_spawn"]
  /\ UNCHANGED <<service_thread, last_scan_time, scan_count, last_send_time,
                 send_count, cache_data, env, now, stack, data, tmp, wake, cal>>

\* start(): self.service_thread = threading.Thread(target=self._service_loop);
\* self.service_thread.start().  The new thread stands at the loop's while.
StartSpawn(c) ==
  /\ pc[c] = "start_spawn"
  /\ \E l \in Loops :
       /\ pc[l] = "unborn"
       /\ \A k \in Loops : pc[k] = "unborn" => l[2] <= k[2]
       /\ service_thread' = l
       /\ pc' = [pc EXCEPT ![c] = "start_scan", ![l] = "loop_while"]
  /\ UNCHANGED <<is_running, last_scan_time, scan_count, last_send_time,
                 send_count, cache_data, env, now, stack, data, tmp, wake, cal>>

\* A start() that leaves the first scan to the background thread.
StartScanSkipped(c) ==
  /\ pc[c] = "start_scan"
  /\ pc' = [pc EXCEPT ![c] = "start_ret"]
  /\ UNCHANGED <<svc, cache_data, env, now, stack, data, tmp, wake, cal>>

\* start(): self._trigger_scan(), the startup scan.
StartScan(c) ==
  /\ pc[c] = "start_scan"
  /\ CallCycle(c, "ts_set_time", "start_ret")
  /\ UNCHANGED <<svc, cache_data, conf, post_count, ok_posts, faults, now,
                 tmp, wake, cal>>

\* start(): return True.
StartRet(c) ==
  /\ pc[c] = "start_ret"
  /\ Finish(c, Ret("start", "True", NoReport))
  /\ UNCHANGED <<svc, cache_data, env, now>>

\* stop(): the check of is_running that opens it.
StopCall(c) ==
  /\ Invoke(c, IF is_running THEN "stop_set" ELSE "stop_false")
  /\ UNCHANGED <<svc, cache_data, env, now, stack, data, tmp, wake>>

\* stop(): print("Service is not running"); return False.
StopRetFalse(c) ==
  /\ pc[c] = "stop_false"
  /\ Finish(c, Ret("stop", "False", NoReport))
  /\ UNCHANGED <<svc, cache_data, env, now>>

\* stop(): self.is_running = False; then join(timeout=5) if the thread of
\* service_thread is alive.
StopSet(c) ==
  /\ pc[c] = "stop_set"
  /\ is_running' = FALSE
  /\ IF service_thread # NoThread /\ Alive(service_thread)
       THEN /\ pc' = [pc EXCEPT ![c] = "stop_join"]
            /\ wake' = [wake EXCEPT ![c] = now + JoinTimeout]
       ELSE /\ pc' = [pc EXCEPT ![c] = "stop_ret"]
            /\ UNCHANGED wake
  /\ UNCHANGED <<service_thread, last_scan_time, scan_count, last_send_time,
                 send_count, cache_data, env, now, stack, data, tmp, cal>>

\* join(timeout=5) returns: the thread has ended, or the timeout has expired.
JoinOver(c) == ~Alive(service_thread) \/ now >= wake[c]

StopJoin(c) ==
  /\ pc[c] = "stop_join"
  /\ JoinOver(c)
  /\ pc' = [pc EXCEPT ![c] = "stop_ret"]
  /\ wake' = [wake EXCEPT ![c] = 0]
  /\ UNCHANGED <<svc, cache_data, env, now, stack, data, tmp, cal>>

\* stop(): return True.
StopRet(c) ==
  /\ pc[c] = "stop_ret"
  /\ Finish(c, Ret("stop", "True", NoReport))
  /\ UNCHANGED <<svc, cache_data, env, now>>

\* force_scan(): self._trigger_scan().
ForceScanCall(c) ==
  /\ Invoke(c, CycleEntry("ts_set_time").pc)
  /\ stack' = [stack EXCEPT ![c] = CycleEntry("ts_set_time").frames \o <<"fs_ret">>]
  /\ EnterCycle(c, "ts_set_time")
  /\ UNCHANGED <<svc, cache_data, conf, post_count, ok_posts, faults, now, tmp, wake>>

\* force_scan(): returns (None).
ForceScanRet(c) ==
  /\ pc[c] = "fs_ret"
  /\ Finish(c, Ret("force_scan", "None", NoReport))
  /\ UNCHANGED <<svc, cache_data, env, now>>

\* ------------------------------------------------------------ Settings
\* Settings(config_file): self._settings = DEFAULT_SETTINGS.copy(); load().
Construct ==
  /\ op = NoOp
  /\ _settings' = Loaded(DEFAULT_SETTINGS, config_file)
  /\ config_file' = AfterLoad(DEFAULT_SETTINGS, config_file)
  /\ op' = Op("__init__", <<>>)
  /\ raised' = "none"
  /\ UNCHANGED <<older, agent>>

\* load() called again on the object; every exception is caught inside.
Load ==
  /\ op # NoOp
  /\ _settings' = Loaded(_settings, config_file)
  /\ config_file' = AfterLoad(_settings, config_file)
  /\ op' = Op("load", <<>>)
  /\ raised' = "none"
  /\ UNCHANGED <<older, agent>>

\* save(): the dict is written to the file.
Save ==
  /\ op # NoOp
  /\ config_file' = ObjectFile(Dump(_settings))
  /\ op' = Op("save", <<>>)
  /\ raised' = "none"
  /\ UNCHANGED <<_settings, older, agent>>

\* settings.<key> = value: the setter validates, then stores; a setter that
\* raises stores nothing.
Assign(key, value) ==
  /\ op # NoOp
  /\ _settings' = IF Setter(key, value).ok
                    THEN [_settings EXCEPT ![key] = Setter(key, value).value]
                    ELSE _settings
  /\ raised' = IF Setter(key, value).ok THEN "none" ELSE "ValueError"
  /\ op' = Op("assign", <<<<key, value>>>>)
  /\ UNCHANGED <<config_file, older, agent>>

\* update(**kwargs): the loop, then raise ValueError if errors.
Update(kwargs) ==
  /\ op # NoOp
  /\ _settings' = UpdateItems([st |-> _settings, errors |-> 0], kwargs).st
  /\ raised' = IF UpdateItems([st |-> _settings, errors |-> 0], kwargs).errors > 0
                 THEN "ValueError" ELSE "none"
  /\ op' = Op("update", <<>>)
  /\ UNCHANGED <<config_file, older, agent>>

\* reset_to_defaults(): self._settings = DEFAULT_SETTINGS.copy(); save().
Reset ==
  /\ op # NoOp
  /\ _settings' = DEFAULT_SETTINGS
  /\ config_file' = ObjectFile(Dump(DEFAULT_SETTINGS))
  /\ op' = Op("reset_to_defaults", <<>>)
  /\ raised' = "none"
  /\ UNCHANGED <<older, agent>>

\* to_dict(): a copy of the dict.
to_dict == _settings

\* Settings(config_file) once more, on the same file: a new instance is made as
\* in __init__, and the instance used so far lives on as the older one.
NewInstance ==
  /\ op # NoOp
  /\ older' = _settings
  /\ _settings' = Loaded(DEFAULT_SETTINGS, config_file)
  /\ config_file' = AfterLoad(DEFAULT_SETTINGS, config_file)
  /\ op' = Op("__init__", <<>>)
  /\ raised' = "none"
  /\ UNCHANGED agent

\* save() called on the older instance: its dict is written to the file.
SaveOlder ==
  /\ op # NoOp
  /\ config_file' = ObjectFile(Dump(older))
  /\ op' = Op("older.save", <<>>)
  /\ raised' = "none"
  /\ UNCHANGED <<_settings, older, agent>>

\* ------------------------------------------------------------ collector
\* A client POSTs to /api/v1/agent/data; the collector handles one request at
\* a time here (the handler keeps no state between requests).
\* The answer to GET /health that a client holds is of no use once the
\* collector has received or answered another POST: health is then NoHealth.
Receive(req) ==
  /\ request = NoRequest \/ response # NoResponse
  /\ request' = req
  /\ response' = NoResponse
  /\ health' = NoHealth
  /\ UNCHANGED <<svc, cache_data, settings, callbacks, snapshot, kept, lists,
                 store, facts, counters, now, thr, cal, received_data>>

\* An ingestion handler that keeps the reports it acknowledges.
RespondRecording ==
  /\ request # NoRequest
  /\ response = NoResponse
  /\ response' = agent_data_handler(request)
  /\ received_data' = IF agent_data_handler(request).status = HttpOk
                        THEN Append(received_data, request) ELSE received_data
  /\ health' = NoHealth
  /\ UNCHANGED <<svc, cache_data, settings, callbacks, snapshot, kept, lists,
                 store, facts, counters, now, thr, cal, request>>

\* The handler returns its response; it is a function of the module with no
\* access to the ServerApp, whose received_data it leaves alone.
Respond ==
  /\ request # NoRequest
  /\ response = NoResponse
  /\ response' = agent_data_handler(request)
  /\ health' = NoHealth
  /\ UNCHANGED <<svc, cache_data, settings, callbacks, snapshot, kept, lists,
                 store, facts, counters, now, thr, cal, request, received_data>>

\* health_handler(request): GET /health answers with the length of
\* received_data.
health_handler ==
  /\ health = NoHealth
  /\ health' = [status |-> "healthy", received_reports |-> Len(received_data)]
  /\ UNCHANGED <<svc, cache_data, settings, callbacks, snapshot, kept, lists,
                 store, facts, counters, now, thr, cal, request, response,
                 received_data>>

\* get_service_status(): the dict is built key by key; 'is_running' first.
StatusCall(c) ==
  /\ Invoke(c, "gss_time")
  /\ snapshot' = [snapshot EXCEPT ![c] = Status(is_running, NoTime, 0, FALSE)]
  /\ UNCHANGED <<svc, cache_data, settings, callbacks, kept, lists, store, collector, facts,
                 counters, now, stack, data, tmp, wake>>

\* get_service_status(): 'last_scan_time': self.last_scan_time.isoformat() if
\* self.last_scan_time else None.
StatusReadTime(c) ==
  /\ pc[c] = "gss_time"
  /\ snapshot' = [snapshot EXCEPT ![c].last_scan_time = last_scan_time]
  /\ pc' = [pc EXCEPT ![c] = "gss_count"]
  /\ UNCHANGED <<svc, cache_data, settings, callbacks, kept, lists, store, collector, facts,
                 counters, now, stack, data, tmp, wake, cal>>

\* get_service_status(): 'scan_count': self.scan_count.
StatusReadCount(c) ==
  /\ pc[c] = "gss_count"
  /\ snapshot' = [snapshot EXCEPT ![c].scan_count = scan_count]
  /\ pc' = [pc EXCEPT ![c] = "gss_alive"]
  /\ UNCHANGED <<svc, cache_data, settings, callbacks, kept, lists, store, collector, facts,
                 counters, now, stack, data, tmp, wake, cal>>

\* get_service_status(): 'thread_alive': self.service_thread.is_alive() if
\* self.service_thread else False; the dict is returned.
StatusRet(c) ==
  /\ pc[c] = "gss_alive"
  /\ snapshot' = [snapshot EXCEPT ![c].thread_alive =
                    service_thread # NoThread /\ Alive(service_thread)]
  /\ Finish(c, Ret("get_service_status", "status", NoReport))
  /\ UNCHANGED <<svc, cache_data, settings, callbacks, kept, lists, store, collector, facts,
                 counters, now>>

\* _trigger_scan(): self.last_scan_time = datetime.now().
TsSetTime(t) ==
  /\ pc[t] = "ts_set_time"
  /\ last_scan_time' = now
  /\ pc' = [pc EXCEPT ![t] = "ts_read_count"]
  /\ UNCHANGED <<is_running, service_thread, scan_count, last_send_time,
                 send_count, cache_data, env, now, stack, data, tmp, wake, cal>>

\* _trigger_scan(): self.scan_count += 1, the read of the attribute.
TsReadCount(t) ==
  /\ pc[t] = "ts_read_count"
  /\ tmp' = [tmp EXCEPT ![t] = scan_count]
  /\ pc' = [pc EXCEPT ![t] = "ts_write_count"]
  /\ UNCHANGED <<svc, cache_data, env, now, stack, data, wake, cal>>

\* The end of a try block: the completion callback n is called if registered;
\* if it raises the except clause h runs, otherwise the function returns.
Complete(t, n, h) ==
  IF Raises(n)
    THEN pc' = [pc EXCEPT ![t] = h] /\ UNCHANGED stack
    ELSE Return(t)

\* _trigger_scan(): self.scan_count += 1, the store of the sum; then
\* on_scan_complete(data) if registered, and the function returns.
TsWriteCount(t) ==
  /\ pc[t] = "ts_write_count"
  /\ scan_count' = tmp[t] + 1
  /\ tmp' = [tmp EXCEPT ![t] = 0]
  /\ data' = [data EXCEPT ![t] = NoReport]
  /\ Complete(t, "on_scan_complete", "ts_except")
  /\ UNCHANGED <<is_running, service_thread, last_scan_time, last_send_time,
                 send_count, cache_data, env, now, wake, cal>>

\* An except clause that counts the failed scan.
TsExceptCounting(t) ==
  /\ pc[t] = "ts_except"
  /\ scan_count' = scan_count + 1
  /\ Return(t)
  /\ UNCHANGED <<is_running, service_thread, last_scan_time, last_send_time,
                 send_count, cache_data, env, now, data, tmp, wake, cal>>

\* An except clause that raises the exception again.
TsExceptReraise(t) ==
  /\ pc[t] = "ts_except"
  /\ pc' = [pc EXCEPT ![t] = Unwind(stack[t]).pc]
  /\ stack' = [stack EXCEPT ![t] = Unwind(stack[t]).stack]
  /\ UNCHANGED <<svc, cache_data, env, now, data, tmp, wake, cal>>

\* _trigger_scan(): except Exception as e: print(...); the function returns.
TsExcept(t) ==
  /\ pc[t] = "ts_except"
  /\ Return(t)
  /\ UNCHANGED <<svc, cache_data, env, now, data, tmp, wake, cal>>

\* _trigger_send(), called directly (no caller of it exists in the service).
TriggerSendCall(c) ==
  /\ Invoke(c, CycleEntry("sd_set_time").pc)
  /\ stack' = [stack EXCEPT ![c] = CycleEntry("sd_set_time").frames \o <<"sd_ret">>]
  /\ EnterCycle(c, "sd_set_time")
  /\ UNCHANGED <<svc, cache_data, conf, post_count, ok_posts, faults, now, tmp, wake>>

\* _trigger_send(): self.last_send_time = datetime.now().
SdSetTime(t) ==
  /\ pc[t] = "sd_set_time"
  /\ last_send_time' = now
  /\ pc' = [pc EXCEPT ![t] = "sd_read_count"]
  /\ UNCHANGED <<is_running, service_thread, last_scan_time, scan_count,
                 send_count, cache_data, env, now, stack, data, tmp, wake, cal>>

\* _trigger_send(): self.send_count += 1, the read.
SdReadCount(t) ==
  /\ pc[t] = "sd_read_count"
  /\ tmp' = [tmp EXCEPT ![t] = send_count]
  /\ pc' = [pc EXCEPT ![t] = "sd_write_count"]
  /\ UNCHANGED <<svc, cache_data, env, now, stack, data, wake, cal>>

\* _trigger_send(): self.send_count += 1, the store; then
\* self._send_data_to_server(data) issues the POST.
SdWriteCount(t) ==
  /\ pc[t] = "sd_write_count"
  /\ send_count' = tmp[t] + 1
  /\ tmp' = [tmp EXCEPT ![t] = 0]
  /\ post_count' = post_count + 1
  /\ pc' = [pc EXCEPT ![t] = "sd_post"]
  /\ UNCHANGED <<is_running, service_thread, last_scan_time, scan_count,
                 last_send_time, cache_data, conf, enum_count, ok_posts,
                 faults, now, stack, data, wake, cal>>

\* _send_data_to_server(): the collector answers with status; 200 returns True,
\* anything else returns False; _trigger_send ignores the value, calls
\* on_send_complete() if registered and returns.
SdPostAnswer(t, status) ==
  /\ pc[t] = "sd_post"
  /\ status # HttpOk => faults < MaxFaults
  /\ ok_posts' = IF status = HttpOk THEN ok_posts + 1 ELSE ok_posts
  /\ faults' = IF status = HttpOk THEN faults ELSE faults + 1
  /\ data' = [data EXCEPT ![t] = NoReport]
  /\ Complete(t, "on_send_complete", "sd_except")
  /\ UNCHANGED <<svc, cache_data, conf, enum_count, post_count, now,
                 tmp, wake, cal>>

\* _send_data_to_server(): requests.post raises (refused, timeout, DNS).
SdPostRaise(t) ==
  /\ pc[t] = "sd_post"
  /\ faults < MaxFaults
  /\ faults' = faults + 1
  /\ pc' = [pc EXCEPT ![t] = "sd_except"]
  /\ UNCHANGED <<svc, cache_data, conf, enum_count, post_count, ok_posts,
                 now, stack, data, tmp, wake, cal>>

\* _trigger_send(): except Exception as e: print(...); the function returns.
SdExcept(t) ==
  /\ pc[t] = "sd_except"
  /\ data' = [data EXCEPT ![t] = NoReport]
  /\ Return(t)
  /\ UNCHANGED <<svc, cache_data, env, now, tmp, wake, cal>>

\* The direct call of _trigger_send returns (None).
TriggerSendRet(c) ==
  /\ pc[c] = "sd_ret"
  /\ Finish(c, Ret("_trigger_send", "None", NoReport))
  /\ UNCHANGED <<svc, cache_data, env, now>>

\* The interval tests of the loop.
ScanDue == last_scan_time = NoTime \/ now - last_scan_time >= settings.timeout_scan
SendDue == last_send_time = NoTime \/ now - last_send_time >= settings.timeout_send

\* A loop that never tests the flag (while True).
LoopWhileForever(l) ==
  /\ pc[l] = "loop_while"
  /\ pc' = [pc EXCEPT ![l] = "loop_sleep"]
  /\ wake' = [wake EXCEPT ![l] = now + TickQuantum]
  /\ UNCHANGED <<svc, cache_data, env, now, stack, data, tmp, cal>>

\* _service_loop(): while self.is_running: ... time.sleep(1); the thread ends
\* when the flag is down.
LoopWhile(l) ==
  /\ pc[l] = "loop_while"
  /\ IF is_running
       THEN /\ pc' = [pc EXCEPT ![l] = "loop_sleep"]
            /\ wake' = [wake EXCEPT ![l] = now + TickQuantum]
       ELSE /\ pc' = [pc EXCEPT ![l] = "dead"]
            /\ UNCHANGED wake
  /\ UNCHANGED <<svc, cache_data, env, now, stack, data, tmp, cal>>

\* _service_loop(): the sleep is over; the scan interval test, which calls
\* _trigger_scan() when due.
LoopCheckScan(l) ==
  /\ pc[l] = "loop_sleep"
  /\ now >= wake[l]
  /\ wake' = [wake EXCEPT ![l] = 0]
  /\ IF ScanDue
       THEN CallCycle(l, "ts_set_time", "loop_check_send")
       ELSE /\ pc' = [pc EXCEPT ![l] = "loop_check_send"]
            /\ UNCHANGED <<stack, enum_count, data>>
  /\ UNCHANGED <<svc, cache_data, conf, post_count, ok_posts, faults, now, tmp, cal>>

\* A loop that records the time of the send it found due.
LoopCheckSendStamping(l) ==
  /\ pc[l] = "loop_check_send"
  /\ IF SendDue
       THEN /\ CallCycle(l, "ts_set_time", "loop_while")
            /\ last_send_time' = now
       ELSE /\ pc' = [pc EXCEPT ![l] = "loop_while"]
            /\ UNCHANGED <<stack, enum_count, data, last_send_time>>
  /\ UNCHANGED <<is_running, service_thread, last_scan_time, scan_count,
                 send_count, cache_data, conf, post_count, ok_posts, faults, now,
                 tmp, wake, cal>>

\* _service_loop(): the send interval test, which calls _trigger_scan() when
\* due (line 130 calls the scan, not _trigger_send).
LoopCheckSend(l) ==
  /\ pc[l] = "loop_check_send"
  /\ IF SendDue
       THEN CallCycle(l, "ts_set_time", "loop_while")
       ELSE /\ pc' = [pc EXCEPT ![l] = "loop_while"]
            /\ UNCHANGED <<stack, enum_count, data>>
  /\ UNCHANGED <<svc, cache_data, conf, post_count, ok_posts, faults, now, tmp, wake, cal>>

\* ---------------------------------------------------------------- time
\* A timed wait that is over: the thread must move before the clock does.
Due(t) ==
  \/ pc[t] = "loop_sleep" /\ now >= wake[t]
  \/ pc[t] = "stop_join" /\ JoinOver(t)

\* One second passes, up to the horizon.
Tick(horizon) ==
  /\ now < horizon
  /\ \A t \in Threads : pc[t] \in Blocking \cup Resting /\ ~Due(t)
  /\ now' = now + 1
  /\ UNCHANGED <<svc, cache_data, env, thr, cal>>

Advance == Tick(MaxTime)

\* ------------------------------------------------------ scenario steps
\* The first call of a run is start().
FirstStart(c) ==
  /\ calls = 0
  /\ StartCall(c)

\* start() returns True and the caller calls force_scan() at once.
ForceScanAfterStart(c) ==
  /\ pc[c] = "start_ret"
  /\ calls < MaxCalls
  /\ calls' = calls + 1
  /\ ret' = [ret EXCEPT ![c] = NoRet]
  /\ CallCycle(c, "ts_set_time", "fs_ret")
  /\ UNCHANGED <<svc, cache_data, conf, post_count, ok_posts, faults, now,
                 tmp, wake>>

\* stop() called once the service has been started, while the horizon leaves
\* room for the tick in progress to end.
StopAfterStart(c) ==
  /\ ret[c] = Ret("start", "True", NoReport)
  /\ now + TickQuantum <= MaxTime
  /\ StopCall(c)

\* The synthetic clock of the interval scenario: it starts with the call of
\* start(), and no enumeration is in flight when it moves (the enumerator of the
\* scenario answers at once).
AdvanceSim ==
  /\ calls > 0
  /\ \A t \in Threads : pc[t] # "scan_enum"
  /\ Tick(SimSeconds)

\* ------------------------------------------------------- specifications
LifecycleStep(c) ==
  \/ StartCall(c) \/ StartRetFalse(c) \/ StartSet(c) \/ StartSpawn(c)
  \/ StartScan(c) \/ StartRet(c)
  \/ StopCall(c) \/ StopRetFalse(c) \/ StopSet(c) \/ StopJoin(c) \/ StopRet(c)
  \/ ForceScanCall(c) \/ ForceScanRet(c)

SendStep(c) == TriggerSendCall(c) \/ TriggerSendRet(c)

QueryStep(c) ==
  GetSoftwareDataCall(c) \/ GetSoftwareDataRet(c) \/ GetSoftwareDataExcept(c)

ScanCycleStep(t) ==
  \/ ScanStore(t) \/ ScanEnumRaise(t)
  \/ TsSetTime(t) \/ TsReadCount(t) \/ TsWriteCount(t) \/ TsExcept(t)

SendCycleStep(t) ==
  \/ SdSetTime(t) \/ SdReadCount(t) \/ SdWriteCount(t)
  \/ SdPostAnswer(t, HttpOk) \/ SdPostAnswer(t, HttpError)
  \/ SdPostRaise(t) \/ SdExcept(t)

LoopStep(l) == LoopWhile(l) \/ LoopCheckScan(l) \/ LoopCheckSend(l)

\* The service under its controlling context: start(), stop() and force_scan()
\* in any order, and the background threads they spawn.
Next ==
  \/ LifecycleStep(Main)
  \/ \E t \in Threads : ScanCycleStep(t)
  \/ \E l \in Loops : LoopStep(l)
  \/ Advance

Spec == Init /\ [][Next]_vars

\* The service object under concurrent callers that have not started it:
\* get_software_data(), force_scan() and _trigger_send() in any interleaving,
\* within one second of the clock (none of these operations reads an interval).
NextCalls ==
  \/ \E c \in Callers :
       QueryStep(c) \/ SendStep(c) \/ ForceScanCall(c) \/ ForceScanRet(c)
  \/ \E c \in Callers : GetDataCheck(c) \/ GetDataHit(c)
  \/ \E c \in Callers : ScanCycleStep(c) \/ SendCycleStep(c)

SpecCalls == Init /\ [][NextCalls]_vars

\* The interval scenario: a service with timeout_scan = 5 and timeout_send = 9
\* is started once, every enumeration succeeds at once, and the synthetic clock
\* runs for SimSeconds.
NextSim ==
  \/ FirstStart(Main) \/ StartSet(Main) \/ StartSpawn(Main) \/ StartScan(Main)
  \/ StartRet(Main)
  \/ \E t \in Threads :
       ScanStore(t) \/ TsSetTime(t) \/ TsReadCount(t) \/ TsWriteCount(t)
  \/ \E l \in Loops : LoopStep(l)
  \/ AdvanceSim

SpecSim == Init /\ [][NextSim]_vars

\* The forced-scan scenario: a service with the default intervals (timeout_scan
\* = 3600) is started once and the caller forces a scan the moment start() has
\* returned; every enumeration succeeds, after any time.
InitDefault ==
  Constructed(DefaultConfig) /\ NoCallbacksRegistered /\ NoLists /\ NoStore

NextForce ==
  \/ FirstStart(Main) \/ StartSet(Main) \/ StartSpawn(Main) \/ StartScan(Main)
  \/ ForceScanAfterStart(Main) \/ ForceScanRet(Main)
  \/ \E t \in Threads :
       ScanStore(t) \/ TsSetTime(t) \/ TsReadCount(t) \/ TsWriteCount(t)
  \/ \E l \in Loops : LoopStep(l)
  \/ Advance

SpecForce == InitDefault /\ [][NextForce]_vars

\* Callbacks: a client registers callbacks and then calls force_scan(),
\* get_software_data() and _trigger_send() one after the other; the enumeration
\* and the collector never fail, so only a callback can.
NextCallbacks ==
  \/ ForceScanCall(Main) \/ ForceScanRet(Main)
  \/ QueryStep(Main) \/ GetDataCheck(Main) \/ GetDataHit(Main)
  \/ SendStep(Main)
  \/ ScanStore(Main) \/ TsSetTime(Main) \/ TsReadCount(Main) \/ TsWriteCount(Main)
  \/ TsExcept(Main)
  \/ SdSetTime(Main) \/ SdReadCount(Main) \/ SdWriteCount(Main)
  \/ SdPostAnswer(Main, HttpOk) \/ SdExcept(Main)

SpecCallbacks == InitCallbacks /\ [][NextCallbacks]_vars

\* Repeated reads: one context calls get_data(), clear_cache() and force_scan()
\* one after the other; an enumeration may fail, time passes.
NextRead ==
  \/ GetDataCall(Main) \/ GetDataCheck(Main) \/ GetDataHit(Main)
  \/ GetDataRet(Main)
  \/ GetDataRaised(Main)
  \/ ClearCache(Main)
  \/ ForceScanCall(Main) \/ ForceScanRet(Main)
  \/ ScanCycleStep(Main)
  \/ Advance

SpecRead == Init /\ [][NextRead]_vars

\* One scan(): the two sources return any lists of at most MaxEntries entries.
NextMerge ==
  \/ ScanCall(Main) \/ ScanRegistry(Main) \/ ScanWmic(Main)
  \/ ScanMerge(Main) \/ ScanSort(Main) \/ ScanStore(Main) \/ ScanRet(Main)

SpecMerge == Init /\ [][NextMerge]_vars

\* A Settings object made where no config file exists, then assigned to,
\* updated and reset in any order.
NextSettings ==
  \/ Construct
  \/ \E key \in SettingKeys, value \in Values : Assign(key, value)
  \/ \E kwargs \in Kwargs : Update(kwargs)
  \/ Reset

SpecSettings == Init /\ [][NextSettings]_vars

\* A Settings object made from any config file, then reloaded, saved or reset.
InitLoad ==
  /\ Constructed(TestConfig) /\ NoCallbacksRegistered /\ NoLists
  /\ _settings = DEFAULT_SETTINGS
  /\ config_file \in Files
  /\ op = NoOp
  /\ raised = "none"
  /\ older = DEFAULT_SETTINGS
  /\ NoExchange

NextLoad == Construct \/ Load \/ Save \/ Reset

SpecLoad == InitLoad /\ [][NextLoad]_vars

\* Instances sharing one file: a Settings object is made where no config file
\* exists and assigned to; further instances are made on the same file; the
\* newest instance and the one before it save in any order.
NextShare ==
  \/ Construct
  \/ \E key \in SettingKeys, value \in UpdateValues : Assign(key, value)
  \/ Save
  \/ SaveOlder
  \/ NewInstance

SpecShare == Init /\ [][NextShare]_vars

\* The collector under any sequence of POSTs, GET /health asked in between.
NextCollector ==
  \/ \E req \in Requests : Receive(req)
  \/ Respond
  \/ health_handler

SpecCollector == Init /\ [][NextCollector]_vars

\* The context that watches the service while Main controls it.
Observer == <<"caller", 2>>

StatusStep(c) ==
  StatusCall(c) \/ StatusReadTime(c) \/ StatusReadCount(c) \/ StatusRet(c)

\* Status under load: Main starts the service once, the Observer calls
\* get_service_status() at any moment, cycles may fail, time passes.
NextStatus ==
  \/ FirstStart(Main) \/ StartSet(Main) \/ StartSpawn(Main) \/ StartScan(Main)
  \/ StartRet(Main)
  \/ StatusStep(Observer)
  \/ \E t \in Threads : ScanCycleStep(t)
  \/ \E l \in Loops : LoopStep(l)
  \/ Advance

SpecStatus == Init /\ [][NextStatus]_vars

\* Start then stop: the service is started once and stopped once; threads are
\* scheduled fairly, an enumeration in flight ends, and time passes.
NextLive ==
  \/ FirstStart(Main) \/ StartSet(Main) \/ StartSpawn(Main) \/ StartScan(Main)
  \/ StartRet(Main)
  \/ StopAfterStart(Main) \/ StopSet(Main) \/ StopJoin(Main) \/ StopRet(Main)
  \/ \E t \in Threads : ScanCycleStep(t)
  \/ \E l \in Loops : LoopStep(l)
  \/ Advance

Fairness ==
  /\ \A t \in Threads : WF_vars(ScanStore(t))
  /\ \A t \in Threads :
       WF_vars(TsSetTime(t) \/ TsReadCount(t) \/ TsWriteCount(t) \/ TsExcept(t))
  /\ \A l \in Loops : WF_vars(LoopStep(l))
  /\ WF_vars(StopSet(Main) \/ StopJoin(Main) \/ StopRet(Main))
  /\ WF_vars(Advance)

SpecLive == Init /\ [][NextLive]_vars /\ Fairness

\* The service under failures of every kind: no callback is registered, or
\* callbacks of which one that a Scan Cycle calls raises; the service is
\* started once, forced to scan and stopped, enumerations fail, time passes.
InitSurvive ==
  /\ Constructed(TestConfig) /\ NoLists /\ NoStore
  /\ callbacks \in {c \in CallbackChoices :
                      \/ c = NoCallbacks
                      \/ c.on_scan_start = "raises"
                      \/ c.on_scan_complete = "raises"}

NextSurvive ==
  \/ NextLive
  \/ ForceScanCall(Main) \/ ForceScanRet(Main)

SpecSurvive == InitSurvive /\ [][NextSurvive]_vars

\* The scanner and its SystemInfo under one context: reports are read and the
\* report cache cleared, the facts are read, cleared and refreshed, in any
\* order; enumerations may fail.
NextFacts ==
  \/ \E name \in SystemReaders : SystemRead(Main, name)
  \/ SystemClearCache(Main) \/ refresh(Main)
  \/ GetDataCall(Main) \/ GetDataCheck(Main) \/ GetDataHit(Main)
  \/ GetDataRet(Main) \/ GetDataRaised(Main)
  \/ ClearCache(Main)
  \/ ScanStore(Main) \/ ScanEnumRaise(Main)

SpecFacts == Init /\ [][NextFacts]_vars

LookupStep(c) ==
  \/ \E name \in Lookups : LookupCall(c, name)
  \/ LookupRead(c) \/ LookupRaised(c)

\* The cache under two contexts: each may read through get_software_data(),
\* look software up or clear the cache, at any moment; enumerations may fail.
NextCache ==
  \/ \E c \in Callers : QueryStep(c) \/ LookupStep(c) \/ ClearCache(c)
  \/ \E c \in Callers : GetDataCheck(c) \/ GetDataHit(c)
  \/ \E c \in Callers : ScanStore(c) \/ ScanEnumRaise(c)

SpecCache == Init /\ [][NextCache]_vars

\* The queries beside a scan: the Observer may read the data, look software
\* up, read the status or register callbacks, at any moment, while Main forces
\* scans; enumerations may fail.
NextQuery ==
  \/ QueryStep(Observer) \/ LookupStep(Observer) \/ StatusStep(Observer)
  \/ \E choice \in CallbackChoices : RegisterCallbacks(Observer, choice)
  \/ GetDataCheck(Observer) \/ GetDataHit(Observer)
  \/ ForceScanCall(Main) \/ ForceScanRet(Main)
  \/ \E c \in Callers : ScanCycleStep(c)

SpecQuery == Init /\ [][NextQuery]_vars

\* get_service_status() called while the service is not running.
StatusAtRest(c) ==
  /\ ~is_running
  /\ StatusCall(c)

\* start() on a service that was never started.
StartOnce(c) ==
  /\ service_thread = NoThread
  /\ StartCall(c)

\* The public surface under one controlling context: Main starts the service
\* once, forces a scan when start() has returned and stops the service; at any
\* moment between its calls it reads the data or looks software up, and it
\* reads the status while the service is not running; the background threads
\* tick, enumerations fail, time passes.
NextSurface ==
  \/ NextLive \/ StartOnce(Main)
  \/ ForceScanAfterStart(Main) \/ ForceScanRet(Main)
  \/ QueryStep(Main)
  \/ StatusAtRest(Main) \/ StatusReadTime(Main) \/ StatusReadCount(Main)
  \/ StatusRet(Main)
  \/ LookupCall(Main, "find_software")
  \/ LookupRead(Main) \/ LookupRaised(Main)
  \/ GetDataCheck(Main) \/ GetDataHit(Main)

SpecSurface == Init /\ [][NextSurface]_vars

\* --------------------------------------------------------------- claims
\* Thread t is inside _trigger_scan (between its start and its end), or inside
\* _trigger_send.
InScanCycle(t) ==
  \/ pc[t] \in {"ts_set_time", "ts_read_count", "ts_write_count", "ts_except"}
  \/ \E i \in 1..Len(stack[t]) : stack[t][i] = "ts_set_time"

InSendCycle(t) ==
  \/ pc[t] \in {"sd_set_time", "sd_read_count", "sd_write_count", "sd_post",
                "sd_except"}
  \/ \E i \in 1..Len(stack[t]) : stack[t][i] = "sd_set_time"

\* The callers whose last operation is a get_software_data() that returned a
\* report.
GotReport == {c \in Callers : ret[c].op = "get_software_data" /\ ret[c].tag = "report"}

\* C1 (cache coalescing): when get_software_data() calls against the empty cache
\* are all that has been invoked and two or more of them have returned, exactly
\* one enumeration has been executed and all of them returned the same report.
C1_CacheCoalescing ==
  (calls = Cardinality(GotReport) /\ calls >= 2) =>
    /\ enum_count = 1
    /\ \A a, b \in GotReport : ret[a].data = ret[b].data

\* C2 (scan cycles are serialized): at most one thread is inside _trigger_scan
\* at any time.
C2_ScanCyclesSerialized ==
  Cardinality({t \in Threads : InScanCycle(t)}) <= 1

CallersIdle == \A c \in Callers : pc[c] = "idle"

\* C4 (delivery failure does not corrupt state): when the only Delivery Cycle
\* run so far got no 200 answer (a non-200 status or a network error),
\* send_count and last_send_time are what they were before it.
C4_DeliveryFailureKeepsState ==
  (CallersIdle /\ post_count = 1 /\ ok_posts = 0) =>
    send_count = 0 /\ last_send_time = NoTime

\* C5 (the tick runs the Delivery Cycle when due): whenever a background thread
\* passes its send interval test with the send due, it enters a Delivery Cycle.
C5_TickRunsDeliveryWhenDue ==
  [][\A l \in Loops :
       (pc[l] = "loop_check_send" /\ pc'[l] # "loop_check_send" /\ SendDue)
         => InSendCycle(l)'
     ]_vars

\* The run is at rest: the caller is idle and every background thread sleeps
\* in its tick or has not been born.
AtRest ==
  /\ pc[Main] = "idle"
  /\ \A l \in Loops : pc[l] \in {"unborn", "loop_sleep"}

\* C6 (interval independence): with timeout_scan = 5 and timeout_send = 9, when
\* 20 seconds of the synthetic clock have passed since start(), the Scan Cycle
\* has run 4 times, give or take one (the startup scan counted or not), and
\* the Delivery Cycle at least twice.
C6_IntervalIndependence ==
  (settings = TestConfig /\ now = SimSeconds /\ AtRest
     /\ ret[Main] = Ret("start", "True", NoReport)) =>
    /\ scan_count \in 3..6
    /\ send_count >= 2

\* C7 (force scan bypass): with timeout_scan = 3600, when the force_scan()
\* called the moment start() returned is about to return, scan_count is 2.
C7_ForceScanBypass ==
  (settings = DefaultConfig /\ pc[Main] = "fs_ret") => scan_count = 2

\* C8 (start() on a running service): a start() that finds is_running true goes
\* to return False, and neither that test nor the return changes is_running,
\* service_thread, scan_count, last_scan_time or the cache, or gives birth to
\* a thread; a start() that finds it false goes on to set it; and is_running
\* only rises in a start() that found it false.
C8_StartIdempotent ==
  [][\A c \in Callers :
       /\ ( \/ pc[c] = "idle" /\ pc'[c] = "start_false"
            \/ pc[c] = "start_false" /\ pc'[c] # "start_false" )
          => /\ UNCHANGED <<is_running, service_thread, scan_count,
                            last_scan_time, cache_data>>
             /\ \A l \in Loops : pc'[l] = pc[l]
       /\ (pc[c] = "start_false" /\ pc'[c] # "start_false")
          => ret'[c] = Ret("start", "False", NoReport)
       /\ (pc[c] = "idle" /\ pc'[c] \in {"start_false", "start_set"})
          => (is_running <=> pc'[c] = "start_false")
       /\ (~is_running /\ is_running') => \E d \in Callers : pc[d] = "start_set"
     ]_vars

\* C8, its case: start() has returned False on a running service.
C8_Witness ==
  is_running /\ ret[Main] = Ret("start", "False", NoReport)

\* C9 (one background context): never do two background threads tick (sleep
\* in the loop's quantum) at the same time.
C9_OneTickLoop ==
  Cardinality({l \in Loops : pc[l] = "loop_sleep"}) <= 1

\* stop() has lowered is_running (and, in a run without a later start(),
\* nothing raises it again).
Stopping ==
  \/ pc[Main] \in {"stop_join", "stop_ret"}
  \/ ret[Main] = Ret("stop", "True", NoReport)

\* C10 (stop ends the loop): in a run with no start() after the stop(), once
\* stop() has passed its check the service is Stopped as soon as the flag is
\* lowered, every background thread eventually ends, and stop() returns True.
C10_StopEndsLoop ==
  /\ [](Stopping => ~is_running)
  /\ Stopping ~> (\A l \in Loops : ~Alive(l))
  /\ (pc[Main] = "stop_set") ~> (ret[Main] = Ret("stop", "True", NoReport))

\* C10, its case: stop() has returned True and the thread it signalled has
\* ended.
C10_Witness ==
  /\ ret[Main] = Ret("stop", "True", NoReport)
  /\ service_thread # NoThread
  /\ pc[service_thread] = "dead"

\* C11 (status is a consistent snapshot): in every dict that
\* get_service_status() has returned, last_scan_time is set if and only if
\* scan_count is greater than 0.
C11_StatusSnapshotConsistent ==
  \A c \in Callers :
    ret[c] = Ret("get_service_status", "status", NoReport)
      => (snapshot[c].last_scan_time # NoTime <=> snapshot[c].scan_count > 0)

\* C12 (callback failures never abort the operation): no exception of a
\* callback leaves the operation that called it; a force_scan() that was the
\* first operation has, when it returns, enumerated once, cached the report
\* and counted the scan; a get_software_data() returns a report; and a
\* _trigger_send() that was the first operation has issued its POST.
C12_CallbackFailuresIsolated ==
  /\ \A t \in Threads : pc[t] # "uncaught"
  /\ (calls = 1 /\ ret[Main] = Ret("force_scan", "None", NoReport))
       => (enum_count = 1 /\ scan_count = 1 /\ cache_data # NoReport)
  /\ (ret[Main].op = "get_software_data" /\ ret[Main].tag # "pending")
       => ret[Main].tag = "report"
  /\ (calls = 1 /\ ret[Main] = Ret("_trigger_send", "None", NoReport))
       => (post_count = 1 /\ send_count = 1)

\* C13 (idempotent read): a get_data() invokes the enumerator at most once, and
\* only when it finds the cache empty; a get_data() that follows a get_data()
\* which returned a report, with no clear_cache() and no scan between them,
\* does not invoke the enumerator and returns that same report.
C13_IdempotentRead ==
  [][\A c \in Callers :
       /\ (pc[c] = "gd_check" /\ pc'[c] # "gd_check")
          => /\ enum_count' \in {enum_count, enum_count + 1}
             /\ enum_count' # enum_count => cache_data = NoReport
             /\ kept[c] # NoReport => enum_count' = enum_count
       /\ (pc[c] = "gd_ret" /\ pc'[c] = "idle" /\ kept[c] # NoReport)
          => ret'[c] = Ret("get_data", "report", kept[c])
     ]_vars

\* C13, its case: the second of two get_data() calls against a cache that was
\* empty has returned the report of the first, after one enumeration.
C13_Witness ==
  /\ calls = 2
  /\ kept[Main] # NoReport
  /\ ret[Main] = Ret("get_data", "report", kept[Main])
  /\ enum_count = 1

\* The entries the two sources returned, the registry's first.
Found == registry_software \o wmic_software

\* C14 (sort and dedup): in the software_list of the report that scan() has
\* returned, no two entries have the same lower-cased name; every name of
\* either source is there; each entry is the first one of its lower-cased name
\* in the registry list followed by the WMIC list, so the registry's entry when
\* both have the name; and the list is ascending by lower-cased name.
C14_SortAndDedup ==
  ret[Main].op = "scan" /\ ret[Main].tag = "report" =>
    /\ \A i, j \in 1..Len(all_software) :
         i # j => lower(all_software[i].name) # lower(all_software[j].name)
    /\ \A k \in 1..Len(Found) : \E i \in 1..Len(all_software) :
         lower(all_software[i].name) = lower(Found[k].name)
    /\ \A i \in 1..Len(all_software) : \E k \in 1..Len(Found) :
         /\ all_software[i] = Found[k]
         /\ \A h \in 1..(k - 1) : lower(Found[h].name) # lower(Found[k].name)
    /\ \A i, j \in 1..Len(all_software) :
         i < j => Less(lower(all_software[i].name), lower(all_software[j].name))

\* C14, its case: scan() has returned after both sources gave an entry of the
\* same name in different case, and the merged list had to be reordered.
C14_Witness ==
  /\ ret[Main].op = "scan" /\ ret[Main].tag = "report"
  /\ \E i \in 1..Len(registry_software), k \in 1..Len(wmic_software) :
       /\ registry_software[i].name # wmic_software[k].name
       /\ lower(registry_software[i].name) = lower(wmic_software[k].name)
  /\ all_software # _merge_software_lists(registry_software, wmic_software)

\* A valid value of a setting as the specification defines Config: an IPv4
\* literal, an integer in 0..65535, an integer that is not negative.
ValidSetting(key, value) ==
  CASE key = "server_address" -> value.ty = "str" /\ value.s \in IPv4Literals
    [] key = "server_port" -> value.ty = "int" /\ value.n \in 0..65535
    [] OTHER -> value.ty = "int" /\ value.n >= 0

\* The (key, value) pair of the assignment that a step has made.
Assigned == op.items[1]

\* The value a parsed file gives to a key.
InFile(file, key) == {file.items[i][2] : i \in {j \in 1..Len(file.items) : file.items[j][1] = key}}

\* C15 (config rejection): an assignment of an invalid value to server_port,
\* server_address, timeout_scan or timeout_send raises ValueError and leaves
\* every stored setting as it was.
C15_ConfigRejection ==
  [][(op'.name = "assign" /\ ~ValidSetting(Assigned'[1], Assigned'[2]))
       => (raised' = "ValueError" /\ _settings' = _settings)
    ]_vars

\* C16 (config validity): the Settings object always holds all four settings,
\* with an IPv4 literal, a port in 0..65535 and timeouts that are not negative.
C16_ConfigValid ==
  /\ DOMAIN _settings = SettingKeys
  /\ \A key \in SettingKeys : ValidSetting(key, _settings[key])

\* C17 (update is all-or-nothing): an update() that raises ValueError has
\* changed no setting.
C17_UpdateAllOrNothing ==
  [][(op'.name = "update" /\ raised' = "ValueError") => _settings' = _settings]_vars

\* The defaults as the tests of Settings state them.
C18_Defaults ==
  [server_address |-> PyStr("127.0.0.1"), server_port |-> PyInt(8080),
   timeout_scan |-> PyInt(3600), timeout_send |-> PyInt(300)]

\* C18 (default values): a Settings object made from a missing file or from a
\* JSON object that sets none of the four keys has address 127.0.0.1, port
\* 8080, timeout_scan 3600 and timeout_send 300, which to_dict() returns; and
\* reset_to_defaults() restores exactly these.
C18_DefaultValues ==
  [][/\ (op'.name = "__init__"
          /\ config_file.kind \in {"missing", "object"}
          /\ \A key \in SettingKeys : InFile(config_file, key) = {})
         => to_dict' = C18_Defaults
     /\ op'.name = "reset_to_defaults" => to_dict' = C18_Defaults
    ]_vars

\* C19 (numeric strings are converted on load): a Settings object made from a
\* file that gives server_port, timeout_scan or timeout_send as the decimal
\* string of a valid value holds the integer of that string.
C19_NumericStringsConverted ==
  [][op'.name = "__init__" =>
       \A key \in {"server_port", "timeout_scan", "timeout_send"} :
         \A value \in InFile(config_file, key) :
           (/\ value.ty = "str"
            /\ value.s \in DecimalStrings
            /\ ValidSetting(key, PyInt(IntOfString(value.s))))
             => _settings'[key] = PyInt(IntOfString(value.s))
    ]_vars

\* C20 (load never raises and degrades per key): making a Settings object
\* raises nothing; a missing file or one that is not JSON yields all defaults,
\* and the missing file is created with them; from a JSON object each setting
\* the file gives a valid value ends at that value, each setting it gives an
\* invalid value ends at its default, and each setting it does not give keeps
\* its default, unknown keys or not.
C20_LoadDegradesPerKey ==
  [][op'.name = "__init__" =>
       /\ raised' = "none"
       /\ config_file.kind \in {"missing", "invalid"} => _settings' = DEFAULT_SETTINGS
       /\ config_file.kind = "missing"
            => config_file' = ObjectFile(Dump(DEFAULT_SETTINGS))
       /\ config_file.kind = "object" =>
            \A key \in SettingKeys :
              /\ InFile(config_file, key) = {} => _settings'[key] = DEFAULT_SETTINGS[key]
              /\ \A value \in InFile(config_file, key) :
                   _settings'[key] = IF ValidSetting(key, value)
                                       THEN value ELSE DEFAULT_SETTINGS[key]
    ]_vars

\* C21 (save/reload round trip): a new Settings object made on the file right
\* after a save() holds the four values of the instance that saved; and with
\* several instances saving to one file, a new instance holds exactly the four
\* values the file holds, those of the most recent save().
C21_SaveReloadRoundTrip ==
  [][op'.name = "__init__" =>
       /\ op.name = "save" => _settings' = _settings
       /\ op.name = "older.save" => _settings' = older
       /\ config_file.kind = "object" => Dump(_settings') = config_file.items
    ]_vars

\* C21, its case: a new instance holds the values of the file, none of them a
\* default, and they are not the values the instance used before it holds
\* now: what was saved last, not what was assigned last.
C21_Witness ==
  /\ op.name = "__init__"
  /\ config_file = ObjectFile(Dump(_settings))
  /\ \A key \in SettingKeys : _settings[key] # DEFAULT_SETTINGS[key]
  /\ older # _settings

\* The request has been answered.
Answered == request # NoRequest /\ response # NoResponse

\* C22 (collector, unparsable body): a POST whose body is not parsable JSON
\* (text that is not JSON, no text at all, bytes that are not text) is answered
\* with 400 and "Invalid JSON data"; every other request the handler cannot
\* process, a failed read of the body included, is answered with 500 and
\* "Internal server error"; and every request is answered with 200, 400 or 500.
C22_UnparsableBody ==
  Answered =>
    /\ request.kind \in {"not_json", "empty", "not_text"}
         => response = Response(HttpBadRequest, "Invalid JSON data")
    /\ (request.kind = "read_error" \/ response.status \notin {HttpOk, HttpBadRequest})
         => response = Response(HttpError, "Internal server error")
    /\ response.status \in {HttpOk, HttpBadRequest, HttpError}

\* C23 (collector, acceptance): a POST whose body is a JSON object is answered
\* with 200 and "Agent data received successfully", whatever its fields are.
C23_Acceptance ==
  (Answered /\ request.kind = "object")
    => response = Response(HttpOk, "Agent data received successfully")

\* C24 (a Delivery Cycle reads the cache): a _trigger_send that starts while
\* the cache holds a report invokes no enumeration and has that report in hand
\* to POST; it invokes the enumeration only when the cache is empty.
C24_DeliveryReadsCache ==
  [][\A t \in Threads :
       (~InSendCycle(t) /\ InSendCycle(t)' /\ cache_data # NoReport)
         => (enum_count' = enum_count /\ data'[t] = cache_data)
     ]_vars

\* C25 (delivery success ordering): last_send_time and send_count change only
\* once the collector has answered a POST with 200 that is not yet counted.
C25_DeliverySuccessOrdering ==
  [][(last_send_time' # last_send_time \/ send_count' # send_count)
       => ok_posts > send_count
    ]_vars

\* C26 (delivery retry on the next tick): a Delivery Cycle issues one POST at
\* most; and when the only Delivery Cycle run so far got no 200 answer, the
\* send is still due.
C26_DeliveryRetryNextTick ==
  /\ post_count <= enum_count
  /\ (CallersIdle /\ post_count = 1 /\ ok_posts = 0) => SendDue

\* C27 (backoff after a cycle exception): when a Scan Cycle run by a background
\* thread has ended in its except clause, the thread does not go on with its
\* tick (the next interval test, the next 1 s sleep).
C27_BackoffAfterCycleException ==
  [][\A l \in Loops :
       (pc[l] = "ts_except" /\ pc'[l] # "ts_except")
         => pc'[l] \notin {"loop_check_send", "loop_while"}
     ]_vars

\* C28 (the loop survives all failures): no background thread is ever ended by
\* an exception, and a background thread ends only at a test of is_running
\* that finds it false.
C28_LoopSurvives ==
  /\ [](\A l \in Loops : pc[l] # "uncaught")
  /\ [][\A l \in Loops : (pc[l] # "dead" /\ pc'[l] = "dead") => ~is_running]_vars

\* C28, its case: a background thread of the running service sleeps in a later
\* tick after an enumeration has raised and with a callback that raises in
\* every Scan Cycle.
C28_Witness ==
  /\ is_running
  /\ faults > 0
  /\ Raises("on_scan_complete")
  /\ \E l \in Loops : pc[l] = "loop_sleep" /\ now >= 2 /\ enum_count >= 3

\* No Scan Cycle is in progress.
Quiescent == \A t \in Threads : ~InScanCycle(t)

\* C29 (scan_count counts the successful scans): whenever no Scan Cycle is in
\* progress, scan_count is the number of Scan Cycles whose enumeration
\* succeeded (those begun less those that raised), across stop() and start().
C29_ScanCountExact ==
  Quiescent => scan_count = enum_count - faults

\* C30 (the tick scans only when the scan is due): a background thread enters
\* a Scan Cycle only at a moment when last_scan_time is unset or timeout_scan
\* has passed since.
C30_TickScansOnlyWhenDue ==
  [][\A l \in Loops : (~InScanCycle(l) /\ InScanCycle(l)') => ScanDue]_vars

\* A value is a complete report: the result scan() built at lines 224-229, with
\* the number of the enumeration it came from and its scan_timestamp.
CompleteReport(r) == r # NoReport /\ r.id \in 1..enum_count /\ r.scan_timestamp # NoTime

\* C32 (observable reports are complete): a cache that is not empty holds a
\* complete report, and every value get_data() handed back, through
\* get_software_data() without an exception, is a complete report, whatever
\* the other context scans or clears meanwhile.
C32_ObservableReportsComplete ==
  /\ cache_data # NoReport => CompleteReport(cache_data)
  /\ \A c \in Callers : ret[c].tag = "report" => CompleteReport(ret[c].data)

\* C33 (find_software never fails): a lookup that has returned has raised no
\* exception and has returned the entries found in a report, whatever the
\* state of the cache and whatever the other context clears or scans.
C33_LookupNeverRaises ==
  \A c \in Callers : ret[c].op = "find_software" =>
    ret[c].tag \in {"pending", "list"}

\* C34 (clear_cache forces one rescan): clear_cache() leaves the cache empty; a
\* get_data() that finds the cache empty starts one enumeration and no other
\* before it returns, the report of that enumeration is stored in the cache
\* and is what get_data() returns; a get_data() that finds a report starts
\* none.
C34_ClearForcesOneRescan ==
  [][\A c \in Callers :
       /\ (ret'[c].op = "clear_cache" /\ calls' = calls + 1)
          => cache_data' = NoReport
       /\ (pc[c] = "gd_check" /\ pc'[c] # "gd_check")
          => enum_count' = IF cache_data = NoReport THEN enum_count + 1
                                                    ELSE enum_count
       /\ (pc[c] \in {"gd_hit", "gd_ret"} \/ (pc[c] = "scan_enum" /\ stack[c] = <<"gd_ret">>))
          => enum_count' = enum_count
       /\ (pc[c] = "scan_enum" /\ pc'[c] = "gd_ret")
          => /\ cache_data' = data'[c]
             /\ data'[c].id = enum_count
             /\ data'[c].scan_timestamp = now
       /\ (pc[c] = "gd_ret" /\ pc'[c] = "idle")
          => ret'[c] = Ret("get_data", "report", cache_data)
     ]_vars

\* C34, its case: get_data(), clear_cache(), get_data() in a row, no
\* enumeration failing: the third call has returned the report of the second
\* enumeration, which is the one in the cache.
C34_Witness ==
  /\ calls = 3 /\ faults = 0 /\ scan_count = 0
  /\ enum_count = 2
  /\ cache_data.id = 2
  /\ ret[Main] = Ret("get_data", "report", cache_data)

\* C35 (the facts are collected once): the collection of the system facts has
\* run once, when the SystemInfo was made, and the bundle a report embeds is
\* the one that collection made, whatever was called since.
C35_FactsCollectedOnce ==
  /\ collect_count = 1
  /\ _cached_info \in {NoInfo, 1}

\* Caller c is inside a query: get_software_data(), find_software(),
\* get_software_names() or get_service_status().
InQuery(c) ==
  \/ InLookup(c)
  \/ pc[c] \in {"gsd_ret", "gsd_except", "gss_time", "gss_count", "gss_alive"}
  \/ \E i \in 1..Len(stack[c]) : stack[c][i] = "gsd_ret"

\* C36 (queries leave the schedule alone): no step of get_software_data(),
\* find_software(), get_software_names(), get_service_status() or
\* register_callbacks() changes is_running, scan_count, last_scan_time,
\* send_count or last_send_time, the step that enumerates on an empty cache
\* included.
C36_QueriesLeaveSchedule ==
  [][\A c \in Callers :
       (/\ pc'[c] # pc[c] \/ ret'[c] # ret[c]
        /\ \/ InQuery(c)
           \/ InQuery(c)'
           \/ ret'[c].op = "register_callbacks")
       => UNCHANGED <<is_running, scan_count, last_scan_time, send_count,
                      last_send_time>>
     ]_vars

\* C36, its case: of two calls, a force_scan() and a get_software_data() that
\* found the cache empty, the second has run the second enumeration and
\* returned its report; the schedule state shows the one scan of force_scan().
C36_Witness ==
  \E c \in Callers :
    /\ calls = 2 /\ enum_count = 2
    /\ ret[c].op = "get_software_data" /\ ret[c].tag = "report"
    /\ ret[c].data.id = 2
    /\ scan_count = 1
    /\ last_scan_time # NoTime

\* C37 (no cycle begins after stop): a background thread enters a Scan Cycle
\* or a Delivery Cycle only while is_running is true; one that slept through
\* the moment stop() cleared the flag enters none.
C37_NoCycleAfterStop ==
  [][\A l \in Loops :
       \/ ~InScanCycle(l) /\ InScanCycle(l)'
       \/ ~InSendCycle(l) /\ InSendCycle(l)'
       => is_running
     ]_vars

\* C38 (no delivery through the public surface): whatever start(), stop(),
\* force_scan(), the queries and the background threads have done, send_count
\* is 0, last_send_time is unset and no POST was issued; so a background
\* thread at its send interval test finds the send due.
C38_NoDelivery ==
  /\ send_count = 0
  /\ last_send_time = NoTime
  /\ post_count = 0 /\ ok_posts = 0
  /\ \A l \in Loops : pc[l] = "loop_check_send" => SendDue

\* C38, its case: three seconds or more into the run, a background thread is
\* at its send interval test, three scans or more have been counted, and
\* nothing was delivered.
C38_Witness ==
  \E l \in Loops :
    /\ pc[l] = "loop_check_send"
    /\ now >= 3
    /\ scan_count >= 3
    /\ send_count = 0 /\ post_count = 0

\* C31 (the startup scan precedes the return of start): at the moment start()
\* returns True, no enumeration having failed, the cache holds a report,
\* scan_count is 1 or more and last_scan_time is set; and a background thread
\* whose tick comes less than timeout_scan after that scan passes its scan
\* interval test without beginning a scan.
C31_StartupScanBeforeReturn ==
  [][/\ \A c \in Callers :
          (pc[c] = "start_ret" /\ pc'[c] = "idle" /\ faults = 0)
          => /\ ret'[c] = Ret("start", "True", NoReport)
             /\ cache_data # NoReport
             /\ scan_count >= 1
             /\ last_scan_time # NoTime
     /\ \A l \in Loops :
          (/\ pc[l] = "loop_sleep" /\ pc'[l] # "loop_sleep"
           /\ settings.timeout_scan > TickQuantum
           /\ last_scan_time # NoTime
           /\ now - last_scan_time < settings.timeout_scan)
          => /\ pc'[l] = "loop_check_send"
             /\ enum_count' = enum_count
    ]_vars

\* C31, its case: start() has returned True after its startup scan, the only
\* enumeration so far, and the background thread, one quantum later, is past
\* its scan interval test without having scanned.
C31_Witness ==
  /\ ret[Main] = Ret("start", "True", NoReport)
  /\ faults = 0 /\ enum_count = 1 /\ scan_count = 1
  /\ cache_data # NoReport
  /\ now = last_scan_time + TickQuantum
  /\ \E l \in Loops : pc[l] = "loop_check_send"

\* C39 (the report counter never advances): received_data stays empty whatever
\* the collector has received and acknowledged, and every answer of GET
\* /health is {"status": "healthy", "received_reports": 0}.
C39_ReportCounterStaysZero ==
  /\ received_data = <<>>
  /\ health # NoHealth => health = [status |-> "healthy", received_reports |-> 0]

\* C39, its case: a POST was acknowledged with 200, and GET /health, asked
\* after it, has answered with 0 reports.
C39_Witness ==
  /\ response = Response(HttpOk, "Agent data received successfully")
  /\ health = [status |-> "healthy", received_reports |-> 0]

====
